---- MODULE Spec2Model ----
(***************************************************************************)
(* The getdocs type-annotation parser (src/src/getdocs/parser.ts) as a     *)
(* state machine.  parse(text) is a recursive-descent parser; its call     *)
(* stack is the variable `stack`, and every action is one stretch of a     *)
(* parser function between two calls, holding at most one scanner.scan().  *)
(*                                                                         *)
(* The annotation text is fixed when parse is called.  The scanner reads   *)
(* it strictly left to right and the parser is deterministic, so the model *)
(* reveals the text one token at a time: the first scan of a position      *)
(* chooses the token that the text holds there, a later scan of the same   *)
(* position (after a lookAhead) reads the token already chosen.            *)
(***************************************************************************)
EXTENDS Integers, Sequences, FiniteSets

VARIABLES
  text,     \* the tokens of the annotation revealed so far
  scanner,  \* the scanner's state: cursor, current token kind, token value
  token,    \* the parser's `token` variable (parser.ts line 6)
  stack,    \* the parser's call stack, innermost activation last
  ret,      \* the value returned by the activation that returned last
  status,   \* "running", "done" (parse returned) or "error" (parse threw)
  result    \* the node parse returned

vars == <<text, scanner, token, stack, ret, status, result>>

----------------------------------------------------------------------------
(* Bounds of the input set.                                                *)

\* Every text of at most MaxLen tokens is an input.
MaxLen == 4
\* Every text that differs from a fixture in at most MaxEdits tokens is
\* an input, and so is every prefix of such a text.
MaxEdits == 1

----------------------------------------------------------------------------
(* Tokens.  A token is its SyntaxKind and its value, a string modelled as  *)
(* the sequence of its characters.                                         *)

T(k) == [kind |-> k, value |-> <<>>]
Id(c) == [kind |-> "Identifier", value |-> <<c>>]
Str(v) == [kind |-> "StringLiteral", value |-> v]
Num(c) == [kind |-> "NumberLiteral", value |-> <<c>>]

EOFToken == T("EndOfFileToken")
\* A character that starts no token: scan() throws on it.
Unknown == T("Unknown")

Punctuation ==
  {"AsteriskToken", "AnyKeyword", "OpenBracketToken", "CloseBracketToken",
   "OpenParenToken", "CloseParenToken", "QuestionToken", "UnionKeyword",
   "OpenBraceToken", "CloseBraceToken", "ColonToken", "DotToken",
   "CommaToken", "LessThanToken", "GreaterThanToken", "DotDotDotToken",
   "RightArrowToken"}

Tokens ==
  {T(k) : k \in Punctuation}
    \cup {Id(c) : c \in {"a", "b", "c"}}
    \cup {Str(<<>>), Str(<<"a">>), Num("1")}
    \cup {EOFToken, Unknown}

LP == T("OpenParenToken")
RP == T("CloseParenToken")
LB == T("OpenBraceToken")
RB == T("CloseBraceToken")
LT == T("LessThanToken")
GT == T("GreaterThanToken")
Comma == T("CommaToken")
Colon == T("ColonToken")
Dot == T("DotToken")
Arrow == T("RightArrowToken")
Ellipsis == T("DotDotDotToken")
Question == T("QuestionToken")
UnionKw == T("UnionKeyword")

\* The annotations of the parser's tests and of the specification's
\* examples, and a few more with nested lists and rest parameters, as token
\* sequences.
Fixtures ==
  { <<LP, LP, RP, Arrow, Id("a"), RP>>,                              \* (() -> a)
    <<LP, Ellipsis, Id("a"), Colon, UnionKw, LT, Id("b"), GT, RP>> } \* (...a: union<b>)
  \cup
  { <<Id("a"), Dot, Id("b"), Dot, Id("c")>>,                        \* a.b.c
    <<Question, UnionKw, LT, Id("a"), GT>>,                          \* ?union<a>
    <<UnionKw, LT, Id("a"), Comma, Id("b"), GT>>,                    \* union<a, b>
    <<UnionKw, LT, Id("a"), Id("b"), GT>>,                           \* union<a b>
    <<UnionKw, LT, Id("a"), Comma, Id("b"), Comma, GT>>,             \* union<a, b,>
    <<UnionKw, LT, Comma, Id("a"), GT>>,                             \* union<,a>
    <<Question, LP, RP, Arrow, Id("a")>>,                            \* ?() -> a
    <<LP, Id("a"), RP, Arrow, Id("b")>>,                             \* (a) -> b
    <<LP, Question, Id("a"), RP, Arrow, Id("b")>>,                   \* (?a) -> b
    <<LP, Id("a"), Comma, Question, Id("b"), RP, Arrow, Id("c")>>,   \* (a, ?b) -> c
    <<LP, Id("a"), Colon, Id("b"), RP, Arrow, Id("c")>>,             \* (a: b) -> c
    <<LP, Id("a"), Dot, Id("b"), RP, Arrow, Id("c")>>,               \* (a.b) -> c
    <<LP, Id("a"), Comma, Comma, Id("b"), RP>>,                      \* (a,,b)
    <<LP, Id("a"), Comma, Ellipsis, Id("b"), Colon, Id("c"), RP>>,   \* (a, ...b: c)
    <<LP, Ellipsis, Id("a"), Colon, Id("b"), Comma, Id("c"), RP>>,   \* (...a: b, c)
    <<LB, Id("a"), Colon, Id("b"), Dot, Id("c"), Comma,
      Id("c"), Colon, Id("a"), RB>> }                \* {node: dom.Node, offset: number}

Distance(s, f) == Cardinality({i \in 1..Len(s) : s[i] # f[i]})

Near(s) == \E f \in Fixtures : Len(s) <= Len(f) /\ Distance(s, f) <= MaxEdits

\* s without its end token
Body(s) ==
  IF Len(s) > 0 /\ s[Len(s)] = EOFToken THEN SubSeq(s, 1, Len(s) - 1) ELSE s

\* s is the beginning of an input
InTexts(s) == Len(Body(s)) <= MaxLen \/ Near(Body(s))

----------------------------------------------------------------------------
(* The scanner (./scanner).                                                *)

AtEnd(sc) == sc.pos >= 1 /\ text[sc.pos] = EOFToken

\* what the next scan() can return: the token after the cursor
ScanChoices ==
  IF AtEnd(scanner) THEN {EOFToken}
  ELSE IF scanner.pos < Len(text) THEN {text[scanner.pos + 1]}
  ELSE {t \in Tokens : InTexts(Append(text, t))}

reveal(t) ==
  IF AtEnd(scanner) \/ scanner.pos < Len(text) THEN text ELSE Append(text, t)

\* scanner.scan() returning token t
scan(sc, t) ==
  [pos |-> IF AtEnd(sc) THEN sc.pos ELSE sc.pos + 1,
   token |-> t.kind,
   tokenValue |-> t.value]

\* scanner.getTokenValue()
getTokenValue == scanner.tokenValue

\* scanner.lookAhead(predicate): `after` is the parser and scanner state
\* the predicate left; the scanner is put back to `saved`.
lookAhead(saved, after) == [after EXCEPT !.scanner = saved]

createScanner == [pos |-> 0, token |-> "Unknown", tokenValue |-> <<>>]

----------------------------------------------------------------------------
(* Control.                                                                *)

Undefined == [kind |-> "undefined"]

Running == status = "running" /\ Len(stack) > 0
Top == stack[Len(stack)]
Callers == SubSeq(stack, 1, Len(stack) - 1)
At(pc) == Running /\ Top.pc = pc

Frame(pc) == [pc |-> pc]

\* the running activation moves on to frame f
Goto(f) == stack' = Append(Callers, f) /\ UNCHANGED <<ret, status, result>>
\* the running activation becomes f and calls g
Call(f, g) ==
  stack' = Append(Append(Callers, f), g) /\ UNCHANGED <<ret, status, result>>
\* the running activation returns v
Return(v) == stack' = Callers /\ ret' = v /\ UNCHANGED <<status, result>>
\* an exception unwinds the whole stack: parse has no handler
Throw ==
  stack' = <<>> /\ ret' = Undefined /\ status' = "error" /\ UNCHANGED result

NoScan == UNCHANGED <<text, scanner, token>>

\* invariant(condition) of ../invariant: throws when the condition fails
invariant(condition, cont) == IF condition THEN cont ELSE Throw /\ NoScan

nextToken(cont) ==
  \E t \in ScanChoices :
    /\ text' = reveal(t)
    /\ IF t = Unknown
         THEN UNCHANGED <<scanner, token>> /\ Throw
         ELSE scanner' = scan(scanner, t) /\ token' = t.kind /\ cont

skipExpected(kind, cont) ==
  IF token # kind THEN Throw /\ NoScan ELSE nextToken(cont)

skipOptional(kind, contTrue, contFalse) ==
  IF token = kind THEN nextToken(contTrue) ELSE NoScan /\ contFalse

Init ==
  /\ text = <<>>
  /\ scanner = createScanner
  /\ token = "Unknown"
  /\ stack = <<Frame("parse")>>
  /\ ret = Undefined
  /\ status = "running"
  /\ result = Undefined

----------------------------------------------------------------------------
(* parse and parseType.                                                    *)

parse ==
  /\ At("parse")
  /\ nextToken(Call(Frame("parse_return"), Frame("parseType")))

parse_return ==
  /\ At("parse_return")
  /\ stack' = Callers
  /\ status' = "done"
  /\ result' = ret
  /\ UNCHANGED <<text, scanner, token, ret>>

\* The switch of parseType with a default arm that parses the token as a
\* wildcard instead of throwing.
TypeStart_lenient(tok) ==
  CASE tok = "OpenBracketToken" -> "parseArray"
    [] tok = "OpenParenToken" -> "parseFunction"
    [] tok = "QuestionToken" -> "parseNullable"
    [] tok = "Identifier" -> "parseEntity"
    [] tok = "UnionKeyword" -> "parseUnion"
    [] tok = "OpenBraceToken" -> "parseObject"
    [] tok = "StringLiteral" -> "parseStringLiteral"
    [] tok = "NumberLiteral" -> "parseNumberLiteral"
    [] OTHER -> "parseAny"

\* the function parseType hands the token to, "throw" for its default arm
TypeStart(tok) ==
  CASE tok \in {"AsteriskToken", "AnyKeyword"} -> "parseAny"
    [] tok = "OpenBracketToken" -> "parseArray"
    [] tok = "OpenParenToken" -> "parseFunction"
    [] tok = "QuestionToken" -> "parseNullable"
    [] tok = "Identifier" -> "parseEntity"
    [] tok = "UnionKeyword" -> "parseUnion"
    [] tok = "OpenBraceToken" -> "parseObject"
    [] tok = "StringLiteral" -> "parseStringLiteral"
    [] tok = "NumberLiteral" -> "parseNumberLiteral"
    [] OTHER -> "throw"

\* parseType with a default arm that returns without throwing
parseType_noThrow ==
  /\ At("parseType")
  /\ NoScan
  /\ IF TypeStart(token) = "throw"
       THEN Return(Undefined)
       ELSE Goto(Frame(TypeStart(token)))

parseType ==
  /\ At("parseType")
  /\ NoScan
  /\ IF TypeStart(token) = "throw" THEN Throw ELSE Goto(Frame(TypeStart(token)))


----------------------------------------------------------------------------
(* Leaves.                                                                 *)

parseAny ==
  /\ At("parseAny")
  /\ nextToken(Return([kind |-> "Any"]))

parseNumberLiteral ==
  /\ At("parseNumberLiteral")
  /\ nextToken(Return([kind |-> "NumberLiteral", value |-> getTokenValue]))

parseStringLiteral ==
  /\ At("parseStringLiteral")
  /\ nextToken(Return([kind |-> "StringLiteral", value |-> getTokenValue]))

\* parseIdentifier(): the identifier is getTokenValue, read by `cont` in
\* the state before the scan
parseIdentifier(cont) == invariant(token = "Identifier", nextToken(cont))

----------------------------------------------------------------------------
(* Lists.                                                                  *)

isListTerminator(context) ==
  CASE context = "TypeParameters" -> token = "GreaterThanToken"
    [] context = "Parameters" -> token = "CloseParenToken"
    [] context = "LiteralTypeMembers" -> token = "CloseBraceToken"
    [] OTHER -> FALSE

\* the activation of parseBracketedList(context, parseElement, open, close)
BracketedList(context, parseElement, open, close) ==
  [pc |-> "parseBracketedList", context |-> context,
   parseElement |-> parseElement, open |-> open, close |-> close,
   result |-> <<>>]

List(items) == [kind |-> "List", items |-> items]

parseBracketedList ==
  /\ At("parseBracketedList")
  /\ skipExpected(Top.open, Goto([Top EXCEPT !.pc = "parseDelimitedList"]))

\* the head of the loop of parseDelimitedList
parseDelimitedList ==
  /\ At("parseDelimitedList")
  /\ NoScan
  /\ IF isListTerminator(Top.context)
       THEN Goto([Top EXCEPT !.pc = "parseBracketedList_close"])
       ELSE Call([Top EXCEPT !.pc = "parseDelimitedList_push"],
                 Frame(Top.parseElement))

\* parseDelimitedList with the comma required after every element that is
\* not followed by the terminator.
parseDelimitedList_push_commaRequired ==
  /\ At("parseDelimitedList_push")
  /\ LET next == [Top EXCEPT !.pc = "parseDelimitedList",
                             !.result = Append(Top.result, ret)]
     IN IF isListTerminator(Top.context)
          THEN NoScan /\ Goto(next)
          ELSE skipExpected("CommaToken", Goto(next))

\* result.push(parseElement()); skipOptional(CommaToken)
parseDelimitedList_push ==
  /\ At("parseDelimitedList_push")
  /\ LET next == [Top EXCEPT !.pc = "parseDelimitedList",
                             !.result = Append(Top.result, ret)]
     IN skipOptional("CommaToken", Goto(next), Goto(next))

parseBracketedList_close ==
  /\ At("parseBracketedList_close")
  /\ skipExpected(Top.close, Return(List(Top.result)))

----------------------------------------------------------------------------
(* Composite types.                                                        *)

parseObject ==
  /\ At("parseObject")
  /\ invariant(token = "OpenBraceToken",
       /\ NoScan
       /\ Call(Frame("parseObject_return"),
               BracketedList("LiteralTypeMembers", "parseTypeLiteralMember",
                             "OpenBraceToken", "CloseBraceToken")))

parseObject_return ==
  /\ At("parseObject_return")
  /\ NoScan
  /\ Return([kind |-> "Object", members |-> ret.items])

parseTypeLiteralMember ==
  /\ At("parseTypeLiteralMember")
  /\ parseIdentifier(Goto([pc |-> "parseTypeLiteralMember_colon",
                           name |-> getTokenValue]))

parseTypeLiteralMember_colon ==
  /\ At("parseTypeLiteralMember_colon")
  /\ skipExpected("ColonToken",
       Call([Top EXCEPT !.pc = "parseTypeLiteralMember_return"],
            Frame("parseType")))

parseTypeLiteralMember_return ==
  /\ At("parseTypeLiteralMember_return")
  /\ NoScan
  /\ Return([kind |-> "ObjectMember", name |-> Top.name, type |-> ret])

parseArray ==
  /\ At("parseArray")
  /\ skipExpected("OpenBracketToken",
       Call(Frame("parseArray_close"), Frame("parseType")))

parseArray_close ==
  /\ At("parseArray_close")
  /\ skipExpected("CloseBracketToken", Return([kind |-> "Array", type |-> ret]))

parseNullable ==
  /\ At("parseNullable")
  /\ nextToken(Call(Frame("parseNullable_return"), Frame("parseType")))

parseNullable_return ==
  /\ At("parseNullable_return")
  /\ NoScan
  /\ Return([kind |-> "Nullable", type |-> ret])

parseEntity ==
  /\ At("parseEntity")
  /\ parseIdentifier(Goto([pc |-> "parseEntity_loop", name |-> getTokenValue]))

\* the test of the while loop of parseEntity
parseEntity_loop ==
  /\ At("parseEntity_loop")
  /\ skipOptional("DotToken",
       Goto([Top EXCEPT !.pc = "parseEntity_identifier"]),
       Return([kind |-> "Entity", name |-> Top.name]))

\* parseEntity with the segments joined in the wrong order:
\* name = parseIdentifier() + '.' + name
parseEntity_identifier_prepend ==
  /\ At("parseEntity_identifier")
  /\ parseIdentifier(Goto([pc |-> "parseEntity_loop",
                           name |-> getTokenValue \o <<".">> \o Top.name]))

\* name += '.' + parseIdentifier()
parseEntity_identifier ==
  /\ At("parseEntity_identifier")
  /\ parseIdentifier(Goto([pc |-> "parseEntity_loop",
                           name |-> Top.name \o <<".">> \o getTokenValue]))

parseUnion ==
  /\ At("parseUnion")
  /\ invariant(token = "UnionKeyword",
       nextToken(Call(Frame("parseUnion_return"),
                      BracketedList("TypeParameters", "parseType",
                                    "LessThanToken", "GreaterThanToken"))))

parseUnion_return ==
  /\ At("parseUnion_return")
  /\ NoScan
  /\ Return([kind |-> "Union", types |-> ret.items])

----------------------------------------------------------------------------
(* Functions.                                                              *)

parseFunction ==
  /\ At("parseFunction")
  /\ NoScan
  /\ Call(Frame("parseFunction_arrow"),
          BracketedList("Parameters", "parseFunctionParameter",
                        "OpenParenToken", "CloseParenToken"))

\* parseFunction with the return type stored whether or not an arrow was
\* found: without one the node carries returnType: undefined.
parseFunction_arrow_placeholder ==
  /\ At("parseFunction_arrow")
  /\ LET func == [kind |-> "Function", parameters |-> ret.items]
     IN skipOptional("RightArrowToken",
          Call([pc |-> "parseFunction_returnType", func |-> func],
               Frame("parseType")),
          Return([kind |-> "Function", parameters |-> ret.items,
                  returnType |-> Undefined]))

\* const func = {kind, parameters}; if (skipOptional(RightArrowToken)) ...
parseFunction_arrow ==
  /\ At("parseFunction_arrow")
  /\ LET func == [kind |-> "Function", parameters |-> ret.items]
     IN skipOptional("RightArrowToken",
          Call([pc |-> "parseFunction_returnType", func |-> func],
               Frame("parseType")),
          Return(func))

\* func.returnType = parseType(); return func
parseFunction_returnType ==
  /\ At("parseFunction_returnType")
  /\ NoScan
  /\ Return([kind |-> "Function", parameters |-> Top.func.parameters,
             returnType |-> ret])

\* The predicate written with nextToken() where the code calls
\* scanner.scan(): the parser's token becomes the token peeked at.
isNamedFunctionParameterStart_nextToken(st, t) ==
  IF st.token = "Identifier"
    THEN [result |-> t.kind = "ColonToken", token |-> t.kind,
          scanner |-> scan(st.scanner, t)]
    ELSE [result |-> FALSE, token |-> st.token, scanner |-> st.scanner]

\* The predicate of the lookAhead, run in parser state st = [token, scanner]
\* when the next scan() returns t: the state it leaves and its result.
isNamedFunctionParameterStart(st, t) ==
  IF st.token = "Identifier"
    THEN [result |-> t.kind = "ColonToken", token |-> st.token,
          scanner |-> scan(st.scanner, t)]
    ELSE [result |-> FALSE, token |-> st.token, scanner |-> st.scanner]

\* the activation of parseFunctionParameter once `rest` is decided
Parameter(pc, rest, name) == [pc |-> pc, rest |-> rest, name |-> name]

\* the named-parameter check and what follows it up to the next call or scan
NamedCheck(t) ==
  LET la == lookAhead(scanner,
              isNamedFunctionParameterStart(
                [token |-> token, scanner |-> scanner], t))
  IN /\ token' = la.token
     /\ scanner' = la.scanner
     /\ IF la.result
          THEN Goto(Parameter("parseFunctionParameter_name", FALSE, <<>>))
          ELSE Call(Parameter("parseFunctionParameter_return", FALSE, <<>>),
                    Frame("parseType"))

\* `name` undefined is the empty string here: `if (name)` tells neither
\* from the other
parseFunctionParameter ==
  /\ At("parseFunctionParameter")
  /\ IF token = "DotDotDotToken"
       THEN nextToken(Goto(Parameter("parseFunctionParameter_name", TRUE, <<>>)))
       ELSE IF token = "Identifier"
         THEN \E t \in ScanChoices :
                /\ text' = reveal(t)
                /\ IF t = Unknown
                     THEN UNCHANGED <<scanner, token>> /\ Throw
                     ELSE NamedCheck(t)
         \* the predicate stops at `token === Identifier`: nothing is
         \* scanned, and the token handed to NamedCheck is not looked at
         ELSE text' = text /\ NamedCheck(EOFToken)

\* name = parseIdentifier()
parseFunctionParameter_name ==
  /\ At("parseFunctionParameter_name")
  /\ parseIdentifier(Goto([Top EXCEPT !.pc = "parseFunctionParameter_colon",
                                      !.name = getTokenValue]))

\* skipExpected(ColonToken); const type = parseType()
parseFunctionParameter_colon ==
  /\ At("parseFunctionParameter_colon")
  /\ skipExpected("ColonToken",
       Call([Top EXCEPT !.pc = "parseFunctionParameter_return"],
            Frame("parseType")))

\* The node built with `functionParameter.rest = rest` outside its `if`:
\* every parameter carries a rest field.
FunctionParameter_restAlways(type, rest, name) ==
  IF name # <<>>
    THEN [kind |-> "FunctionParameter", type |-> type, rest |-> rest,
          name |-> name]
    ELSE [kind |-> "FunctionParameter", type |-> type, rest |-> rest]

FunctionParameter(type, rest, name) ==
  CASE rest /\ name # <<>> ->
         [kind |-> "FunctionParameter", type |-> type, rest |-> rest,
          name |-> name]
    [] rest /\ name = <<>> ->
         [kind |-> "FunctionParameter", type |-> type, rest |-> rest]
    [] ~rest /\ name # <<>> ->
         [kind |-> "FunctionParameter", type |-> type, name |-> name]
    [] OTHER -> [kind |-> "FunctionParameter", type |-> type]

parseFunctionParameter_return ==
  /\ At("parseFunctionParameter_return")
  /\ NoScan
  /\ Return(FunctionParameter(ret, Top.rest, Top.name))

----------------------------------------------------------------------------

Next ==
  \/ parse
  \/ parse_return
  \/ parseType
  \/ parseAny
  \/ parseNumberLiteral
  \/ parseStringLiteral
  \/ parseBracketedList
  \/ parseDelimitedList
  \/ parseDelimitedList_push
  \/ parseBracketedList_close
  \/ parseObject
  \/ parseObject_return
  \/ parseTypeLiteralMember
  \/ parseTypeLiteralMember_colon
  \/ parseTypeLiteralMember_return
  \/ parseArray
  \/ parseArray_close
  \/ parseNullable
  \/ parseNullable_return
  \/ parseEntity
  \/ parseEntity_loop
  \/ parseEntity_identifier
  \/ parseUnion
  \/ parseUnion_return
  \/ parseFunction
  \/ parseFunction_arrow
  \/ parseFunction_returnType
  \/ parseFunctionParameter
  \/ parseFunctionParameter_name
  \/ parseFunctionParameter_colon
  \/ parseFunctionParameter_return

Spec == Init /\ [][Next]_vars

\* parse runs to completion: nothing suspends it
FairSpec == Spec /\ WF_vars(Next)

----------------------------------------------------------------------------
(* The tree parse returned, and the text it was parsed from.               *)

Done == status = "done"

\* the tokens parse consumed: all those before the current token
consumed == SubSeq(text, 1, scanner.pos - 1)

Has(n, field) == field \in DOMAIN n

Range(s) == {s[i] : i \in 1..Len(s)}

\* the child nodes of n, in source order
ChildSeq(n) ==
  CASE n.kind \in {"Nullable", "Array", "ObjectMember", "FunctionParameter"} ->
         <<n.type>>
    [] n.kind = "Union" -> n.types
    [] n.kind = "Object" -> n.members
    [] n.kind = "Function" ->
         n.parameters \o (IF Has(n, "returnType") THEN <<n.returnType>> ELSE <<>>)
    [] OTHER -> <<>>

RECURSIVE Pre(_), PreList(_)
\* the nodes of the tree under n, each before its children
Pre(n) == <<n>> \o PreList(ChildSeq(n))
PreList(s) == IF s = <<>> THEN <<>> ELSE Pre(Head(s)) \o PreList(Tail(s))

Nodes(n) == Range(Pre(n))

Map(s, F(_)) == [i \in 1..Len(s) |-> F(s[i])]

Indices(s) == [i \in 1..Len(s) |-> i]

Entity(name) == [kind |-> "Entity", name |-> name]
Unnamed(type) == [kind |-> "FunctionParameter", type |-> type]
----------------------------------------------------------------------------
(* C1: the lookAhead of parseFunctionParameter.                            *)

\* the running activation and its caller
Active(st) == st[Len(st)]
Caller(st) == st[Len(st) - 1]

\* the named-parameter check found an identifier not followed by ':'
CheckFailed ==
  /\ token = "Identifier"
  /\ text'[scanner.pos + 1] # Colon

\* (a.b) and (a.b) -> c
TextDotted == <<LP, Id("a"), Dot, Id("b"), RP>>
TextDottedArrow == TextDotted \o <<Arrow, Id("c")>>

\* C1: the named-parameter check of parseFunctionParameter leaves the
\* parser's token and the scanner's cursor, token and token value as they
\* were, whether it succeeds or fails; when it fails on an identifier the
\* parameter stays unnamed and parseType starts at that identifier, so that
\* '(a.b)' and '(a.b) -> c' give one unnamed parameter of type Entity a.b.
C1_LookAheadRestores ==
  /\ [][(At("parseFunctionParameter") /\ token # "DotDotDotToken"
           /\ status' = "running")
          => /\ token' = token
             /\ scanner' = scanner
             /\ CheckFailed
                  => /\ Active(stack').pc = "parseType"
                     /\ Caller(stack').name = <<>>
                     /\ ~Caller(stack').rest]_vars
  /\ [](Done /\ consumed = TextDotted
          => result = [kind |-> "Function",
                       parameters |-> <<Unnamed(Entity(<<"a", ".", "b">>))>>])
  /\ [](Done /\ consumed = TextDottedArrow
          => result = [kind |-> "Function",
                       parameters |-> <<Unnamed(Entity(<<"a", ".", "b">>))>>,
                       returnType |-> Entity(<<"c">>)])

\* '(a.b) -> c' was parsed: the check ran on `a`, saw '.', and failed
C1_Witness ==
  /\ Done
  /\ consumed = TextDottedArrow
  /\ result.parameters = <<Unnamed(Entity(<<"a", ".", "b">>))>>
----------------------------------------------------------------------------
(* C2: the optional fields of a FunctionParameter.                         *)

IsParameter(n) == n.kind = "FunctionParameter"
IsNamed(n) == n.kind \in {"FunctionParameter", "ObjectMember"} /\ Has(n, "name")
NamePrefix(n) == [name |-> n.name, rest |-> Has(n, "rest")]

\* the named parameters and object members of the tree, in source order
NamedNodes == Map(SelectSeq(Pre(result), IsNamed), NamePrefix)

IsColonAt(i) == consumed[i] = Colon
IsEllipsisAt(i) == consumed[i] = Ellipsis
ColonPrefix(i) ==
  [name |-> IF i >= 2 THEN consumed[i - 1].value ELSE <<>>,
   rest |-> i >= 3 /\ consumed[i - 2] = Ellipsis]

\* what the text says of each ':' it holds, in source order: the identifier
\* before it, and whether '...' stands before that identifier
ColonPrefixes == Map(SelectSeq(Indices(consumed), IsColonAt), ColonPrefix)

\* (a: b) -> c
TextNamed == <<LP, Id("a"), Colon, Id("b"), RP, Arrow, Id("c")>>
\* (a, ...b: c)
TextRest == <<LP, Id("a"), Comma, Ellipsis, Id("b"), Colon, Id("c"), RP>>

\* C2: in the tree parse returns, a parameter has `rest` exactly when it
\* began with '...', and then rest is true and the parameter has a name; it
\* has `name` exactly when it began with identifier ':' (after '...' or
\* not), and the name is that identifier.  The named nodes of the tree are,
\* in order, the ':' of the text; the rest parameters are its '...'.
C2_ParameterPrefix ==
  Done =>
    /\ NamedNodes = ColonPrefixes
    /\ \A n \in Nodes(result) :
         IsParameter(n) /\ Has(n, "rest") => n.rest = TRUE /\ Has(n, "name")
    /\ Cardinality({i \in 1..Len(consumed) : IsEllipsisAt(i)})
         = Len(SelectSeq(NamedNodes, LAMBDA p : p.rest))
    /\ consumed = TextNamed
         => result.parameters
              = <<[kind |-> "FunctionParameter", type |-> Entity(<<"b">>),
                   name |-> <<"a">>]>>
    /\ consumed = TextRest
         => result.parameters
              = <<Unnamed(Entity(<<"a">>)),
                  [kind |-> "FunctionParameter", type |-> Entity(<<"c">>),
                   rest |-> TRUE, name |-> <<"b">>]>>

\* '(a, ...b: c)' was parsed: an unnamed parameter and a named rest one
C2_Witness ==
  /\ Done
  /\ consumed = TextRest
  /\ Len(NamedNodes) = 1
  /\ NamedNodes[1].rest
----------------------------------------------------------------------------
(* C3: where a rest parameter may stand.                                   *)

\* C3: in every Function node parse returns, a parameter with rest = true
\* is the last of the parameters list.
C3_RestOnlyLast ==
  Done =>
    \A f \in Nodes(result) :
      f.kind = "Function" =>
        \A i \in 1..Len(f.parameters) :
          Has(f.parameters[i], "rest") => i = Len(f.parameters)

----------------------------------------------------------------------------
(* C4: the return type of a Function.                                      *)

RECURSIVE ByClose(_), ByCloseList(_)
\* the Function nodes of the tree under n in the order of their ')': after
\* the functions of their parameters, before those of their return type
ByClose(n) ==
  IF n.kind = "Function"
    THEN ByCloseList(n.parameters) \o <<n>>
           \o (IF Has(n, "returnType") THEN ByClose(n.returnType) ELSE <<>>)
    ELSE ByCloseList(ChildSeq(n))
ByCloseList(s) ==
  IF s = <<>> THEN <<>> ELSE ByClose(Head(s)) \o ByCloseList(Tail(s))

HasReturnType(f) == Has(f, "returnType")
IsCloseParenAt(i) == consumed[i] = RP
\* the token after the i-th token is the arrow; the token after the last
\* consumed token is the current token
ArrowAfter(i) == text[i + 1] = Arrow

\* ()   and   () -> a
TextCall == <<LP, RP>>
TextCallArrow == <<LP, RP, Arrow, Id("a")>>

\* C4: every Function node parse returns has a parameters list, and has a
\* returnType field exactly when the arrow was the token right after the
\* ')' of its parameter list; '()' gives a Function without the field,
\* '() -> a' one whose returnType is Entity a.
C4_ReturnTypeIffArrow ==
  Done =>
    /\ \A f \in Nodes(result) :
         f.kind = "Function"
           => Has(f, "parameters") /\ f.parameters \in Seq(Nodes(result))
    /\ Map(ByClose(result), HasReturnType)
         = Map(SelectSeq(Indices(consumed), IsCloseParenAt), ArrowAfter)
    /\ consumed = TextCall
         => result = [kind |-> "Function", parameters |-> <<>>]
    /\ consumed = TextCallArrow
         => result = [kind |-> "Function", parameters |-> <<>>,
                      returnType |-> Entity(<<"a">>)]

\* a function with a return type inside one without: '(() -> a)'
C4_Witness ==
  /\ Done
  /\ result.kind = "Function"
  /\ ~Has(result, "returnType")
  /\ Len(result.parameters) = 1
  /\ result.parameters[1].type.kind = "Function"
  /\ Has(result.parameters[1].type, "returnType")
----------------------------------------------------------------------------
(* C5: parse returns a node only for a complete valid annotation.          *)

\* C5: parse returns a node only when the whole input is one valid
\* annotation: when it returns, the token after the type it parsed is the
\* end of the input.
C5_AllOrNothing == Done => token = "EndOfFileToken"

----------------------------------------------------------------------------
(* C7: what the parameters list of a Function holds.                       *)

\* C7: a parameter that is unnamed and not variadic stands in the
\* parameters list as its type node itself, with no wrapper around it:
\* '(a) -> b' gives parameters [Entity a].
C7_UnnamedIsBareType ==
  Done =>
    \A f \in Nodes(result) :
      f.kind = "Function" =>
        \A i \in 1..Len(f.parameters) :
          ~Has(f.parameters[i], "rest") /\ ~Has(f.parameters[i], "name")
            => f.parameters[i].kind # "FunctionParameter"
----------------------------------------------------------------------------
(* C6: lists and their commas.                                             *)

\* the token a leaf or a name was scanned from
Word(value) == [kind |-> "Identifier", value |-> value]

RECURSIVE Dotted(_)
\* the tokens of an Entity name: its segments and the dots between them
Dotted(name) ==
  IF name = <<>> THEN <<>>
  ELSE IF Head(name) = "." THEN <<Dot>> \o Dotted(Tail(name))
  ELSE <<Word(<<Head(name)>>)>> \o Dotted(Tail(name))

RECURSIVE Unparse(_), UnparseList(_)
\* the annotation of a tree, written without commas and with '*' for Any
Unparse(n) ==
  CASE n.kind = "Any" -> <<T("AsteriskToken")>>
    [] n.kind = "Entity" -> Dotted(n.name)
    [] n.kind = "StringLiteral" -> <<Str(n.value)>>
    [] n.kind = "NumberLiteral" ->
         <<[kind |-> "NumberLiteral", value |-> n.value]>>
    [] n.kind = "Nullable" -> <<Question>> \o Unparse(n.type)
    [] n.kind = "Array" ->
         <<T("OpenBracketToken")>> \o Unparse(n.type)
           \o <<T("CloseBracketToken")>>
    [] n.kind = "Union" -> <<UnionKw, LT>> \o UnparseList(n.types) \o <<GT>>
    [] n.kind = "Object" -> <<LB>> \o UnparseList(n.members) \o <<RB>>
    [] n.kind = "ObjectMember" -> <<Word(n.name), Colon>> \o Unparse(n.type)
    [] n.kind = "Function" ->
         <<LP>> \o UnparseList(n.parameters) \o <<RP>>
           \o (IF Has(n, "returnType")
                 THEN <<Arrow>> \o Unparse(n.returnType) ELSE <<>>)
    [] n.kind = "FunctionParameter" ->
         (IF Has(n, "rest") THEN <<Ellipsis>> ELSE <<>>)
           \o (IF Has(n, "name") THEN <<Word(n.name), Colon>> ELSE <<>>)
           \o Unparse(n.type)
    [] OTHER -> <<Unknown>>
UnparseList(s) ==
  IF s = <<>> THEN <<>> ELSE Unparse(Head(s)) \o UnparseList(Tail(s))

NotComma(t) == t # Comma
Star(t) == IF t.kind = "AnyKeyword" THEN T("AsteriskToken") ELSE t
\* the consumed text without its commas, `any` written '*'
Essence == Map(SelectSeq(consumed, NotComma), Star)

UnionAB == [kind |-> "Union", types |-> <<Entity(<<"a">>), Entity(<<"b">>)>>]
\* union<a, b>   union<a b>   union<a, b,>
TextUnion == <<UnionKw, LT, Id("a"), Comma, Id("b"), GT>>
TextUnionNoComma == <<UnionKw, LT, Id("a"), Id("b"), GT>>
TextUnionTrailing == <<UnionKw, LT, Id("a"), Comma, Id("b"), Comma, GT>>
\* {a: b.c, c: a} without its comma, (a, ?b) -> c without its comma
TextObjectNoComma ==
  <<LB, Id("a"), Colon, Id("b"), Dot, Id("c"), Id("c"), Colon, Id("a"), RB>>
TextCallNoComma == <<LP, Id("a"), Question, Id("b"), RP, Arrow, Id("c")>>

IsPrefix(s, t) == Len(s) <= Len(t) /\ s = SubSeq(t, 1, Len(s))

\* parse threw on the text s: it threw having read no token that is not of
\* s followed by the end of the input
Rejected(s) == status = "error" /\ IsPrefix(text, Append(s, EOFToken))

----------------------------------------------------------------------------
(* C8: Entity names.                                                       *)

IsIdentifierAt(i) ==
  i \in 1..Len(consumed) /\ consumed[i].kind = "Identifier"
IsNameAt(i) == IsIdentifierAt(i) /\ i < Len(consumed) /\ consumed[i + 1] = Colon

RECURSIVE RunEnd(_)
\* where the run identifier ('.' identifier)* that starts at i ends
RunEnd(i) ==
  IF i + 1 <= Len(consumed) /\ consumed[i + 1] = Dot /\ IsIdentifierAt(i + 2)
    THEN RunEnd(i + 2) ELSE i

RECURSIVE Join(_, _)
\* the characters of the tokens i..j of the text
Join(i, j) ==
  IF i > j THEN <<>>
  ELSE (IF consumed[i] = Dot THEN <<".">> ELSE consumed[i].value)
         \o Join(i + 1, j)

RECURSIVE RunsFrom(_)
\* the maximal runs identifier ('.' identifier)* of the text from i on, the
\* names before a ':' left out
RunsFrom(i) ==
  IF i > Len(consumed) THEN <<>>
  ELSE IF IsIdentifierAt(i) /\ ~IsNameAt(i)
    THEN <<Join(i, RunEnd(i))>> \o RunsFrom(RunEnd(i) + 1)
    ELSE RunsFrom(i + 1)

IsEntity(n) == n.kind = "Entity"
EntityName(n) == n.name
EntityNames == Map(SelectSeq(Pre(result), IsEntity), EntityName)

WellFormedName(name) ==
  /\ name # <<>>
  /\ name[1] # "."
  /\ name[Len(name)] # "."
  /\ \A i \in 1..(Len(name) - 1) : ~(name[i] = "." /\ name[i + 1] = ".")

\* a.b.c
TextABC == <<Id("a"), Dot, Id("b"), Dot, Id("c")>>

\* C8: the Entity nodes of the tree parse returns are, in order, the maximal
\* runs identifier ('.' identifier)* of the text, each one flat node named
\* by the identifiers joined with '.': no name is empty or begins or ends
\* with '.'; 'a.b.c' gives Entity a.b.c; and parse returns no tree for a
\* text in which it consumed a '.' that no identifier follows.
C8_EntityNames ==
  Done =>
    /\ EntityNames = RunsFrom(1)
    /\ \A n \in Nodes(result) :
         IsEntity(n) => WellFormedName(n.name) /\ DOMAIN n = {"kind", "name"}
    /\ consumed = TextABC => result = Entity(<<"a", ".", "b", ".", "c">>)
    /\ \A i \in 1..Len(consumed) :
         consumed[i] = Dot => IsIdentifierAt(i - 1) /\ IsIdentifierAt(i + 1)

\* 'a.b.c' was parsed
C8_Witness == Done /\ consumed = TextABC /\ Len(result.name) = 5
----------------------------------------------------------------------------
(* C9: tokens that start no type.                                          *)

StartKinds ==
  {"AsteriskToken", "AnyKeyword", "OpenBracketToken", "OpenParenToken",
   "QuestionToken", "Identifier", "UnionKeyword", "OpenBraceToken",
   "StringLiteral", "NumberLiteral"}

Openers == {LT, LP, LB, Comma}

\* C9: when parseType is entered on a token that starts no type (the end
\* token, a comma and a closing delimiter among them) it throws and builds
\* no node; so parse returns no tree for a text in which a comma stands
\* first in a list or right after another comma: 'union<,a>' and '(a,,b)'
\* are rejected.
C9_NoTypeStartThrows ==
  /\ [][At("parseType") /\ token \notin StartKinds
          => /\ status' = "error"
             /\ stack' = <<>>
             /\ ret' = Undefined
             /\ result' = result]_vars
  /\ [](Done => \A i \in 1..Len(consumed) :
                  consumed[i] = Comma
                    => i > 1 /\ consumed[i - 1] \notin Openers)
  /\ [](status # "running" /\ IsPrefix(<<UnionKw, LT, Comma>>, text)
          => Rejected(<<UnionKw, LT, Comma>>))
  /\ [](status # "running" /\ IsPrefix(<<LP, Id("a"), Comma, Comma>>, text)
          => Rejected(<<LP, Id("a"), Comma, Comma>>))

\* 'union<,' was read and parseType threw on the comma
C9_Witness ==
  /\ status = "error"
  /\ text = <<UnionKw, LT, Comma>>
  /\ token = "CommaToken"

----------------------------------------------------------------------------
(* C10: termination.                                                       *)

IsListFrame(f) == Has(f, "result")
ListWork(f) == 1 + Len(f.result)

RECURSIVE Sum(_)
Sum(s) == IF s = <<>> THEN 0 ELSE Head(s) + Sum(Tail(s))

HasName(f) == Has(f, "name")

\* parse does no more work than the tokens it has scanned pay for:
\* every list in progress has scanned its opening token and at least one
\* token for each element it holds, every activation on the stack is paid
\* for by a scanned token (at most three activations each), and so is every
\* segment of a name in progress.  The text being finite, no loop spins.
C10_Progress ==
  Running =>
    /\ Sum(Map(SelectSeq(stack, IsListFrame), ListWork)) <= scanner.pos
    /\ Len(stack) <= 3 * scanner.pos + 2
    /\ \A i \in 1..Len(stack) :
         HasName(stack[i]) => Len(stack[i].name) <= 2 * scanner.pos

\* parse has ended at the end of the input inside an unterminated list:
\* 'union<a' followed by the end token
C10_Witness ==
  /\ status = "error"
  /\ text = <<UnionKw, LT, Id("a"), EOFToken>>
  /\ token = "EndOfFileToken"

\* the length of the longest input, its end token counted
MaxOf(S) == CHOOSE y \in S : \A z \in S : z <= y
TextLimit == 1 + MaxOf({MaxLen} \cup {Len(f) : f \in Fixtures})

\* the places where an activation waits for a call to return, and the test
\* of the loop of parseEntity: control gets there by a scan or a return
Continuations ==
  {"parse_return", "parseObject_return", "parseTypeLiteralMember_return",
   "parseArray_close", "parseNullable_return", "parseUnion_return",
   "parseFunction_arrow", "parseFunction_returnType",
   "parseFunctionParameter_return", "parseDelimitedList_push",
   "parseEntity_loop"}

\* how many steps without a scan can still follow from pc while the
\* stack grows
Descent(pc) ==
  CASE pc = "parseDelimitedList" -> 6
    [] pc = "parseFunctionParameter" -> 5
    [] pc \in {"parseType", "parseFunctionParameter_name",
               "parseTypeLiteralMember"} -> 4
    [] pc \in {"parseFunction", "parseObject"} -> 3
    [] pc \in {"parseBracketedList", "parseBracketedList_close"} -> 2
    [] OTHER -> 1

\* A variant of parse: the tokens left to scan count most; between two
\* scans control first unwinds through continuations, the stack shrinking,
\* then descends through calls.
Rank ==
  IF ~Running THEN 0
  ELSE (6 * TextLimit + 16) * (TextLimit - scanner.pos)
         + (IF Top.pc \in Continuations
              THEN 10 + 2 * Len(stack)
                     + (IF Top.pc = "parseDelimitedList_push" THEN 1 ELSE 0)
              ELSE Descent(Top.pc))

\* C10: parse ends on every text, by returning or by throwing: every step
\* of parse lowers the variant Rank, which no step can do for ever; and
\* its work stays within what the scanned tokens pay for (C10_Progress), so
\* that no iteration of the loops of parseDelimitedList and parseEntity and
\* no call of parseType goes without consuming a token or throwing, at the
\* end of the input inside an unterminated list as anywhere else.
C10_Terminates ==
  /\ [][Rank' < Rank]_vars
  /\ []C10_Progress
  /\ [](scanner.pos <= TextLimit)

\* parse ends, by returning or by throwing (under FairSpec)
Terminates == <>(status # "running")
====
